---------------------------- MODULE Spec2Model ----------------------------
(***************************************************************************)
(* A model of the IAM policy builders (PolicyStatement, PolicyDocument)    *)
(* and of the MSK Cluster construct's configuration validation.            *)
(*                                                                         *)
(* Three specifications share the module:                                  *)
(*   Spec          one PolicyStatement driven by its mutators              *)
(*   SpecDocument  one PolicyDocument: addStatement and resolve            *)
(*   SpecCluster   construction of one Cluster from its props              *)
(***************************************************************************)
EXTENDS Integers, Sequences, FiniteSets, TLC

VARIABLES
    \* PolicyStatement fields
    action,         \* private action = new Array<any>()
    principal,      \* private principal: { [key: string]: any[] }
    resource,       \* private resource = new Array<any>()
    condition,      \* private condition: { [key: string]: any }
    effect,         \* private effect?: PolicyStatementEffect
    sid,            \* private sid?: any
    trace,          \* the mutator calls made so far, in call order
    \* PolicyDocument fields
    baseDocument,   \* the object passed to the constructor (mutable, shared)
    statements,     \* private statements = new Array<PolicyStatement>()
    base0,          \* the base document as it was when the constructor ran
    resolved,       \* what the last resolve() call returned
    nResolves,      \* number of resolve() calls made
    \* Cluster
    variant,        \* which revision of cluster.ts is being run
    pc,             \* "new" before the constructor has run, then "constructed"
    props,          \* the ClusterProps the constructor was given
    annotations,    \* errors recorded with core.Annotations.of(this).addError
    cfn,            \* the props handed to CfnCluster
    cluster,        \* the Cluster object's own fields
    children,       \* ids of the constructs created in the cluster's scope
    thrown,         \* message of the Error thrown, "" while none was
    got,            \* what the last read of connections returned
    reads,          \* per lookup getter, how many times it was read
    resolves,       \* per lookup getter, how many times its Lazy was resolved
    returned,       \* per lookup getter, the response field it last gave
    resources,      \* the SDK call of each AwsCustomResource, by construct id
    secrets,        \* the secretName of each secretsmanager.Secret, by id
    userCalls       \* the username lists addUser was called with, in order

stmtVars == <<action, principal, resource, condition, effect, sid, trace>>
docVars == <<baseDocument, statements, base0, resolved, nResolves>>
useVars == <<thrown, got, reads, resolves, returned, resources>>
userVars == <<secrets, userCalls>>
clusterVars ==
    <<variant, pc, props, annotations, cfn, cluster, children, useVars,
      userVars>>
vars == <<stmtVars, docVars, clusterVars>>

----------------------------------------------------------------------------
(* Bounds of the model.                                                    *)

MaxCalls == 2        \* mutator calls made on the statement
MaxStatements == 2   \* statements added to the document
MaxResolves == 2     \* resolve() calls made on the document
MaxSubnets == 3      \* subnets the selection can yield
MaxLookups == 2      \* lookup getter reads, and Lazy resolutions, on a cluster
MaxAddUsers == 1     \* addUser calls on a cluster

----------------------------------------------------------------------------
(* JavaScript values as they appear in the emitted structures.             *)

Undefined == [kind |-> "undefined"]
Scalar(s) == [kind |-> "scalar", val |-> s]
List(s) == [kind |-> "list", val |-> s]
Object(m) == [kind |-> "object", val |-> m]

EmptyMap == [k \in {} |-> <<>>]

\* JavaScript truthiness of a value: undefined and the empty string are
\* falsy, every array and every object is truthy.
Truthy(v) == /\ v.kind # "undefined"
             /\ ~(v.kind = "scalar" /\ v.val = "")

----------------------------------------------------------------------------
(* PolicyStatement: the values the mutators are driven with.               *)

Allow == "Allow"
Deny == "Deny"
PolicyStatementEffect == {Allow, Deny}

Actions == {"a1", "a2"}
Resources == {"r1", "r2"}
Sids == {"sid1", "sid2"}
PrincipalArn == "arn:p1"
AccountId == "123"
ServiceName == "sns.amazonaws.com"
FederatedName == "cognito"
CanonicalUserId == "canon1"

\* Argument lists of the variadic mutators: none, two different, one twice.
ArgLists(S) == {<<>>} \cup {<<a, b>> : a, b \in S}

\* Conditions: operator key -> payload.
ConditionCalls == {<<"StringEquals", "v1">>, <<"StringEquals", "v2">>,
                   <<"Bool", "v1">>}
ConditionMaps == {EmptyMap, ("StringEquals" :> "v2"),
                  ("StringEquals" :> "v1" @@ "Bool" :> "v2")}
FederatedConditions == {EmptyMap, ("StringEquals" :> "v2")}

\* The payload limitToAccount stores: a token producing
\* { 'sts:ExternalId': accountId }.
ExternalIdToken(accountId) == "sts:ExternalId=123"

----------------------------------------------------------------------------
(* Principals and their policy fragments (./principals, ./util).           *)

PrincipalPolicyFragment(principalJson, conditions) ==
    [principalJson |-> principalJson, conditions |-> conditions]

ArnPrincipal(arn) == PrincipalPolicyFragment("AWS" :> <<arn>>, EmptyMap)
\* arn:aws:iam::<accountId>:root
AccountPrincipal(accountId) == ArnPrincipal("arn:aws:iam::123:root")
AccountRootPrincipal == AccountPrincipal(AccountId)
ServicePrincipal(service) ==
    PrincipalPolicyFragment("Service" :> <<service>>, EmptyMap)
FederatedPrincipal(federated, conditions) ==
    PrincipalPolicyFragment("Federated" :> <<federated>>, conditions)
CanonicalUserPrincipal(id) ==
    PrincipalPolicyFragment("CanonicalUser" :> <<id>>, EmptyMap)
Anyone == ArnPrincipal("*")

\* IPrincipal implementations of the caller's own: fragments naming a tag
\* with no value, and one naming two tags.
CustomPrincipals ==
    {PrincipalPolicyFragment("AWS" :> <<>>, EmptyMap),
     PrincipalPolicyFragment("Service" :> <<>>, EmptyMap),
     PrincipalPolicyFragment("AWS" :> <<"*">> @@ "Service" :> <<ServiceName>>,
                             EmptyMap)}

\* For each key of source: target[key] = target[key] || []; then
\* target[key].push(...source[key]).
mergePrincipal(target, source) ==
    [k \in DOMAIN target \cup DOMAIN source |->
        (IF k \in DOMAIN target THEN target[k] ELSE <<>>)
        \o (IF k \in DOMAIN source THEN source[k] ELSE <<>>)]

----------------------------------------------------------------------------
(* PolicyStatement: the mutators.                                          *)

Call(op, args, fragment) ==
    [op |-> op, args |-> args,
     principalJson |-> fragment.principalJson,
     conditions |-> fragment.conditions]

NoFragment == PrincipalPolicyFragment(EmptyMap, EmptyMap)

\* new PolicyStatement() or new PolicyStatement(effect)
EffectArgs == {<<>>} \cup {<<e>> : e \in PolicyStatementEffect}

\* constructor(effect: PolicyStatementEffect = PolicyStatementEffect.Allow)
constructorEffect(args) == IF args = <<>> THEN Allow ELSE args[1]

InitStatement ==
    /\ action = <<>>
    /\ principal = EmptyMap
    /\ resource = <<>>
    /\ condition = EmptyMap
    /\ sid = Undefined
    /\ \E args \in EffectArgs :
           /\ effect = constructorEffect(args)
           /\ trace = <<Call("new", args, NoFragment)>>

\* One more mutator call fits in the bound.
CanCall == Len(trace) <= MaxCalls

Log(op, args, fragment) == trace' = Append(trace, Call(op, args, fragment))

\* The statement's action list after addAction(a): this.action.push(action)
pushAction_dedup(arr, a) ==
    IF \E i \in 1..Len(arr) : arr[i] = a THEN arr ELSE Append(arr, a)
pushAction(arr, a) == Append(arr, a)

RECURSIVE pushActions(_, _)
\* actions.forEach(action => this.addAction(action))
pushActions(arr, as) ==
    IF as = <<>> THEN arr
    ELSE pushActions(pushAction(arr, Head(as)), Tail(as))

addAction(a) ==
    /\ CanCall
    /\ action' = pushAction(action, a)
    /\ Log("addAction", <<a>>, NoFragment)
    /\ UNCHANGED <<principal, resource, condition, effect, sid>>
    /\ UNCHANGED <<docVars, clusterVars>>

addActions(as) ==
    /\ CanCall
    /\ action' = pushActions(action, as)
    /\ Log("addActions", as, NoFragment)
    /\ UNCHANGED <<principal, resource, condition, effect, sid>>
    /\ UNCHANGED <<docVars, clusterVars>>

\* The condition map after addCondition(key, value):
\* this.condition[key] = value
setConditionKey_keepFirst(cond, key, value) ==
    IF key \in DOMAIN cond THEN cond ELSE (key :> value) @@ cond
setConditionKey(cond, key, value) == (key :> value) @@ cond

RECURSIVE setConditionKeys(_, _, _)
\* Object.keys(conditions).map(key => this.addCondition(key, conditions[key]))
setConditionKeys(cond, conditions, keys) ==
    IF keys = {} THEN cond
    ELSE LET k == CHOOSE x \in keys : TRUE
         IN setConditionKeys(setConditionKey(cond, k, conditions[k]),
                             conditions, keys \ {k})

mergeConditions(cond, conditions) ==
    setConditionKeys(cond, conditions, DOMAIN conditions)

\* mergePrincipal(this.principal, fragment.principalJson);
\* this.addConditions(fragment.conditions)
AddPrincipalAs(op, args, fragment) ==
    /\ CanCall
    /\ principal' = mergePrincipal(principal, fragment.principalJson)
    /\ condition' = mergeConditions(condition, fragment.conditions)
    /\ Log(op, args, fragment)
    /\ UNCHANGED <<action, resource, effect, sid>>
    /\ UNCHANGED <<docVars, clusterVars>>

addPrincipal(fragment) == AddPrincipalAs("addPrincipal", <<>>, fragment)
addAwsPrincipal(arn) ==
    AddPrincipalAs("addAwsPrincipal", <<arn>>, ArnPrincipal(arn))
addAwsAccountPrincipal(accountId) ==
    AddPrincipalAs("addAwsAccountPrincipal", <<accountId>>,
                   AccountPrincipal(accountId))
addArnPrincipal(arn) ==
    AddPrincipalAs("addArnPrincipal", <<arn>>, ArnPrincipal(arn))
addServicePrincipal(service) ==
    AddPrincipalAs("addServicePrincipal", <<service>>,
                   ServicePrincipal(service))
addFederatedPrincipal(federated, conditions) ==
    AddPrincipalAs("addFederatedPrincipal", <<federated>>,
                   FederatedPrincipal(federated, conditions))
addAccountRootPrincipal ==
    AddPrincipalAs("addAccountRootPrincipal", <<>>, AccountRootPrincipal)
addCanonicalUserPrincipal(canonicalUserId) ==
    AddPrincipalAs("addCanonicalUserPrincipal", <<canonicalUserId>>,
                   CanonicalUserPrincipal(canonicalUserId))
addAnyPrincipal == AddPrincipalAs("addAnyPrincipal", <<>>, Anyone)

\* The statement's resource list after addResource(arn):
\* this.resource.push(arn)
pushResource(arr, arn) == Append(arr, arn)

RECURSIVE pushResources(_, _)
\* arns.forEach(r => this.addResource(r))
pushResources(arr, arns) ==
    IF arns = <<>> THEN arr
    ELSE pushResources(pushResource(arr, Head(arns)), Tail(arns))

addResource(arn) ==
    /\ CanCall
    /\ resource' = pushResource(resource, arn)
    /\ Log("addResource", <<arn>>, NoFragment)
    /\ UNCHANGED <<action, principal, condition, effect, sid>>
    /\ UNCHANGED <<docVars, clusterVars>>

addAllResources ==
    /\ CanCall
    /\ resource' = pushResource(resource, "*")
    /\ Log("addAllResources", <<>>, NoFragment)
    /\ UNCHANGED <<action, principal, condition, effect, sid>>
    /\ UNCHANGED <<docVars, clusterVars>>

addResources(arns) ==
    /\ CanCall
    /\ resource' = pushResources(resource, arns)
    /\ Log("addResources", arns, NoFragment)
    /\ UNCHANGED <<action, principal, condition, effect, sid>>
    /\ UNCHANGED <<docVars, clusterVars>>

describe(s) ==
    /\ CanCall
    /\ sid' = Scalar(s)
    /\ Log("describe", <<s>>, NoFragment)
    /\ UNCHANGED <<action, principal, resource, condition, effect>>
    /\ UNCHANGED <<docVars, clusterVars>>

allow_keepsEffect ==
    /\ CanCall
    /\ effect' = effect
    /\ Log("allow", <<>>, NoFragment)
    /\ UNCHANGED <<action, principal, resource, condition, sid>>
    /\ UNCHANGED <<docVars, clusterVars>>
allow ==
    /\ CanCall
    /\ effect' = Allow
    /\ Log("allow", <<>>, NoFragment)
    /\ UNCHANGED <<action, principal, resource, condition, sid>>
    /\ UNCHANGED <<docVars, clusterVars>>

deny ==
    /\ CanCall
    /\ effect' = Deny
    /\ Log("deny", <<>>, NoFragment)
    /\ UNCHANGED <<action, principal, resource, condition, sid>>
    /\ UNCHANGED <<docVars, clusterVars>>

AddConditionAs(op, key, value) ==
    /\ CanCall
    /\ condition' = setConditionKey(condition, key, value)
    /\ Log(op, <<key>>, PrincipalPolicyFragment(EmptyMap, key :> value))
    /\ UNCHANGED <<action, principal, resource, effect, sid>>
    /\ UNCHANGED <<docVars, clusterVars>>

addCondition(key, value) == AddConditionAs("addCondition", key, value)

addConditions(conditions) ==
    /\ CanCall
    /\ condition' = mergeConditions(condition, conditions)
    /\ Log("addConditions", <<>>,
           PrincipalPolicyFragment(EmptyMap, conditions))
    /\ UNCHANGED <<action, principal, resource, effect, sid>>
    /\ UNCHANGED <<docVars, clusterVars>>

\* return this.addCondition(key, value)
setCondition(key, value) == AddConditionAs("setCondition", key, value)

limitToAccount(accountId) ==
    AddConditionAs("limitToAccount", "StringEquals",
                   ExternalIdToken(accountId))

----------------------------------------------------------------------------
(* PolicyStatement: serialization.                                         *)

_norm_keepEmpty(values) ==
    IF values.kind = "undefined" THEN Undefined
    ELSE IF values.kind = "list"
         THEN (IF Len(values.val) = 1 THEN Scalar(values.val[1])
               ELSE values)
    ELSE values
_norm(values) ==
    IF values.kind = "undefined" THEN Undefined
    ELSE IF values.kind = "list"
         THEN (IF Len(values.val) = 0 THEN Undefined
               ELSE IF Len(values.val) = 1 THEN Scalar(values.val[1])
               ELSE values)
    ELSE IF values.kind = "object"
         THEN (IF DOMAIN values.val = {} THEN Undefined ELSE values)
    ELSE values

\* result[key] = normVal for every key whose normVal is truthy
NormalizedPrincipal(p) ==
    LET kept == {k \in DOMAIN p : Truthy(_norm(List(p[k])))}
    IN [k \in kept |-> _norm(List(p[k]))]

_normPrincipal_noCollapse(p) ==
    IF DOMAIN p = {} THEN Undefined ELSE Object(NormalizedPrincipal(p))
_normPrincipal_anyWildcard(p) ==
    IF DOMAIN p = {} THEN Undefined
    ELSE LET result == NormalizedPrincipal(p)
         IN IF "AWS" \in DOMAIN result /\ result["AWS"] = Scalar("*")
            THEN Scalar("*")
            ELSE Object(result)
_normPrincipal(p) ==
    IF DOMAIN p = {} THEN Undefined
    ELSE LET result == NormalizedPrincipal(p)
         IN IF /\ Cardinality(DOMAIN result) = 1
               /\ "AWS" \in DOMAIN result
               /\ result["AWS"] = Scalar("*")
            THEN Scalar("*")
            ELSE Object(result)

toJson ==
    [Action |-> _norm(List(action)),
     Condition |-> _norm(Object(condition)),
     Effect |-> _norm(Scalar(effect)),
     Principal |-> _normPrincipal(principal),
     Resource |-> _norm(List(resource)),
     Sid |-> _norm(sid)]

\* Object.keys(this.principal).length > 0
hasPrincipal == DOMAIN principal # {}

\* this.resource && this.resource.length > 0
hasResource == Len(resource) > 0

----------------------------------------------------------------------------
(* PolicyDocument                                                          *)

DefaultVersion == "2012-10-17"
BaseVersions == {Undefined, Scalar(""), Scalar("2008-10-17")}
BaseStatementLists == {Undefined, List(<<>>), List(<<"s0">>)}
StatementIds == {"s1", "s2"}

\* A document object: its Statement and Version properties.
Document(stmts, version) == [Statement |-> stmts, Version |-> version]

\* The constructor's argument: no base document, or an object whose
\* Statement and Version may each be missing.
BaseDocuments ==
    {Undefined} \cup
    {Object(Document(st, v)) : st \in BaseStatementLists, v \in BaseVersions}

InitDocument ==
    /\ baseDocument \in BaseDocuments
    /\ base0 = baseDocument
    /\ statements = <<>>
    /\ resolved = [called |-> FALSE, value |-> Undefined]
    /\ nResolves = 0

\* return this.statements.length === 0
isEmpty_offByOne == Len(statements) = 1
isEmpty == Len(statements) = 0

statementCount == Len(statements)

\* this.statements.push(statement)
pushStatement(arr, statement) == Append(arr, statement)

addStatement(statement) ==
    /\ Len(statements) < MaxStatements
    /\ statements' = pushStatement(statements, statement)
    /\ UNCHANGED <<baseDocument, base0, resolved, nResolves>>
    /\ UNCHANGED <<stmtVars, clusterVars>>

\* doc.Version = doc.Version || '2012-10-17'
versionOrDefault_always(version) == Scalar(DefaultVersion)
versionOrDefault(version) ==
    IF Truthy(version) THEN version ELSE Scalar(DefaultVersion)

\* doc.Statement = doc.Statement || [ ]
statementOrEmpty(stmts) == IF Truthy(stmts) THEN stmts ELSE List(<<>>)

\* The object resolve() returns when the document is not empty; it is the
\* base document itself, updated in place, when there is one.
resolvedDocument(base, stmts) ==
    LET doc == IF Truthy(base) THEN base.val
               ELSE Document(Undefined, Undefined)
    IN Object(Document(
           List(statementOrEmpty(doc.Statement).val \o stmts),
           versionOrDefault(doc.Version)))

resolve ==
    /\ nResolves < MaxResolves
    /\ nResolves' = nResolves + 1
    /\ IF isEmpty
       THEN /\ resolved' = [called |-> TRUE, value |-> Undefined]
            /\ UNCHANGED baseDocument
       ELSE /\ resolved' = [called |-> TRUE,
                            value |-> resolvedDocument(baseDocument,
                                                       statements)]
            /\ baseDocument' = IF Truthy(baseDocument)
                               THEN resolvedDocument(baseDocument, statements)
                               ELSE baseDocument
    /\ UNCHANGED <<statements, base0>>
    /\ UNCHANGED <<stmtVars, clusterVars>>

----------------------------------------------------------------------------
(* Cluster: the props the constructor is driven with.                      *)

\* Revisions of the construct: lib/cluster.ts (clientAuthentication.tls /
\* .sasl) and the revision with clientAuthentication.tlsProps / .saslProps.
ClusterTs == "cluster.ts"
ClusterPart0 == "part_000"
Variants == {ClusterTs, ClusterPart0}
\* The class Cluster extends cdk.Resource kept in the second half of
\* lib/cluster.ts.
ClusterLegacy == "cluster.ts (cdk.Resource)"
Revisions == Variants \cup {ClusterLegacy}

TLS == "TLS"
TLS_PLAINTEXT == "TLS_PLAINTEXT"
PLAINTEXT == "PLAINTEXT"
ClientBrokerEncryption == {TLS, TLS_PLAINTEXT, PLAINTEXT}

MinSubnets == 2
MaxNameLength == 64
MinVolumeSize == 1
MaxVolumeSize == 16384
DefaultVolumeSize == 1000

MsgSubnets == "Cluster requires at least 2 subnets"
MsgName == "The cluster name must only contain alphanumeric characters and have a maximum length of 64 characters."
MsgExclusive == "Only one of SASL/SCRAM or TLS client authentication can be set."
MsgClientAuth == "To enable client authentication, you must enabled TLS-encrypted traffic between clients and brokers."
MsgSaslScram == "To enable SASL/SCRAM authentication, you must only allow TLS-encrypted traffic between clients and brokers."
MsgVolume == "EBS volume size should be in the range 1-16384"

AlnumChars ==
    {"a", "b", "c", "d", "e", "f", "g", "h", "i", "j", "k", "l", "m",
     "n", "o", "p", "q", "r", "s", "t", "u", "v", "w", "x", "y", "z",
     "A", "B", "C", "D", "E", "F", "G", "H", "I", "J", "K", "L", "M",
     "N", "O", "P", "Q", "R", "S", "T", "U", "V", "W", "X", "Y", "Z",
     "0", "1", "2", "3", "4", "5", "6", "7", "8", "9"}

\* A cluster name: its characters, and whether it is an unresolved token.
Name(unresolved, chars) == [unresolved |-> unresolved, chars |-> chars]

Repeat(c, n) == [i \in 1..n |-> c]

ClusterNames ==
    {Name(FALSE, <<"m", "s", "k", "1">>),
     Name(FALSE, <<"b", "a", "d", " ", "n", "a", "m", "e", "!">>),
     Name(FALSE, Repeat("a", MaxNameLength + 1)),
     Name(FALSE, Repeat("a", MaxNameLength) \o <<"!">>),
     Name(TRUE, <<"$", "{", "T", "o", "k", "e", "n", "}">>),
     Name(TRUE, Repeat("a", MaxNameLength) \o <<"$", "{", "T", "}">>)}

VolumeSizes ==
    {Undefined} \cup
    {Scalar(n) : n \in {MinVolumeSize - 1, MinVolumeSize, DefaultVolumeSize,
                        MaxVolumeSize, MaxVolumeSize + 1}}

CertificateAuthorityArns == {Undefined, List(<<>>), List(<<"arn:ca1">>)}
Booleans == {Undefined, Scalar(FALSE), Scalar(TRUE)}
Keys == {Undefined, Scalar("key1")}
SecurityGroups == {Undefined, List(<<"sg1">>)}

\* ClusterProps, with each optional chain flattened to the value read at its
\* end: clientBroker is props.encryptionInTransit?.clientBroker, and so on.
ClusterPropsSet ==
    [subnets : 0..MaxSubnets,
     clusterName : ClusterNames,
     clientBroker : {Undefined} \cup {Scalar(m) : m \in ClientBrokerEncryption},
     certificateAuthorityArns : CertificateAuthorityArns,
     scram : Booleans,
     saslKey : Keys,
     volumeSize : VolumeSizes,
     encryptionKey : Keys,
     securityGroups : SecurityGroups]

\* Lookup getters of the class.
Getters ==
    {"zookeeperConnectionString", "zookeeperConnectionStringTls",
     "bootstrapBrokers", "bootstrapBrokersTls", "bootstrapBrokersSaslScram"}

\* Nothing has been read or thrown yet.
InitUse ==
    /\ thrown = ""
    /\ got = Undefined
    /\ reads = [g \in Getters |-> 0]
    /\ resolves = [g \in Getters |-> 0]
    /\ returned = [g \in Getters |-> Undefined]
    /\ resources = EmptyMap
    /\ secrets = EmptyMap
    /\ userCalls = <<>>

InitCluster ==
    /\ variant \in Variants
    /\ pc = "new"
    /\ props = Undefined
    /\ annotations = <<>>
    /\ cfn = Undefined
    /\ cluster = Undefined
    /\ children = {}
    /\ InitUse

----------------------------------------------------------------------------
(* Cluster: the constructor's checks, each the errors it records.          *)

\* if (subnetSelection.subnets.length < 2)
subnetErrors_atMost(p) ==
    IF p.subnets <= MinSubnets THEN <<MsgSubnets>> ELSE <<>>
subnetErrors(p) == IF p.subnets < MinSubnets THEN <<MsgSubnets>> ELSE <<>>

\* /^[a-zA-Z0-9]+$/.test(name)
IsAlphanumeric(chars) ==
    /\ Len(chars) > 0
    /\ \A i \in 1..Len(chars) : chars[i] \in AlnumChars

\* if (!Token.isUnresolved(name) && !/^[a-zA-Z0-9]+$/.test(name) &&
\*     name.length > 64)
nameErrors_ignoreToken(p) ==
    IF /\ ~IsAlphanumeric(p.clusterName.chars)
       /\ Len(p.clusterName.chars) > MaxNameLength
    THEN <<MsgName>> ELSE <<>>
nameErrors(p) ==
    IF /\ ~p.clusterName.unresolved
       /\ ~IsAlphanumeric(p.clusterName.chars)
       /\ Len(p.clusterName.chars) > MaxNameLength
    THEN <<MsgName>> ELSE <<>>

\* if (clientAuthentication?.tls?.certificateAuthorityArns &&
\*     clientAuthentication?.sasl?.scram): in lib/cluster.ts only
exclusiveErrors(v, p) ==
    IF /\ v = ClusterTs
       /\ Truthy(p.certificateAuthorityArns)
       /\ p.scram = Scalar(TRUE)
    THEN <<MsgExclusive>> ELSE <<>>

\* if (clientBroker === PLAINTEXT && (certificateAuthorityArns || scram))
\* else if (clientBroker === TLS_PLAINTEXT && scram)
encryptionErrors_noElse(p) ==
    (IF /\ p.clientBroker = Scalar(PLAINTEXT)
        /\ (Truthy(p.certificateAuthorityArns) \/ p.scram = Scalar(TRUE))
     THEN <<MsgClientAuth>> ELSE <<>>)
    \o
    (IF /\ p.clientBroker \in {Scalar(PLAINTEXT), Scalar(TLS_PLAINTEXT)}
        /\ p.scram = Scalar(TRUE)
     THEN <<MsgSaslScram>> ELSE <<>>)
encryptionErrors_anyAuth(p) ==
    IF /\ p.clientBroker \in {Scalar(PLAINTEXT), Scalar(TLS_PLAINTEXT)}
       /\ (Truthy(p.certificateAuthorityArns) \/ p.scram = Scalar(TRUE))
    THEN (IF p.clientBroker = Scalar(PLAINTEXT) THEN <<MsgClientAuth>>
          ELSE <<MsgSaslScram>>)
    ELSE <<>>
encryptionErrors(p) ==
    IF /\ p.clientBroker = Scalar(PLAINTEXT)
       /\ (Truthy(p.certificateAuthorityArns) \/ p.scram = Scalar(TRUE))
    THEN <<MsgClientAuth>>
    ELSE IF /\ p.clientBroker = Scalar(TLS_PLAINTEXT)
            /\ p.scram = Scalar(TRUE)
         THEN <<MsgSaslScram>>
         ELSE <<>>

\* if (volumeSize !== undefined && (volumeSize < 1 || volumeSize > 16384))
volumeErrors_exclusiveMax(p) ==
    IF /\ p.volumeSize # Undefined
       /\ (p.volumeSize.val < MinVolumeSize
           \/ p.volumeSize.val >= MaxVolumeSize)
    THEN <<MsgVolume>> ELSE <<>>
volumeErrors(p) ==
    IF /\ p.volumeSize # Undefined
       /\ (p.volumeSize.val < MinVolumeSize
           \/ p.volumeSize.val > MaxVolumeSize)
    THEN <<MsgVolume>> ELSE <<>>

\* securityGroups ?? [new ec2.SecurityGroup(this, 'SecurityGroup', ...)]
connectionGroups(p) ==
    IF p.securityGroups # Undefined THEN p.securityGroups.val
    ELSE <<"SecurityGroup">>

\* if (sasl?.scram && sasl?.key === undefined) new kms.Key(this, 'SASLKey')
createsSaslKey(p) == p.scram = Scalar(TRUE) /\ p.saslKey = Undefined

\* The constructs the constructor creates in the cluster's scope.
constructedChildren(p) ==
    (IF p.securityGroups = Undefined THEN {"SecurityGroup"} ELSE {})
    \cup (IF createsSaslKey(p) THEN {"SASLKey"} ELSE {})
    \cup {"Resource"}

\* The fields the constructor sets on the object. The created key is kept
\* in this.saslScramAuthenticationKey by the tlsProps/saslProps revision
\* only; lib/cluster.ts holds it in a local constant.
clusterFields(v, p) ==
    [_connections |-> List(connectionGroups(p)),
     saslScramAuthenticationKey |->
         IF v = ClusterPart0 /\ createsSaslKey(p) THEN Scalar("SASLKey")
         ELSE Undefined,
     clusterArn |-> "Resource.ref"]

\* The props handed to new CfnCluster(this, 'Resource', ...)
cfnClusterProps(p) ==
    [clusterName |-> p.clusterName,
     clientSubnets |-> p.subnets,
     securityGroups |-> connectionGroups(p),
     \* volumeSize: volumeSize || 1000
     volumeSize |-> IF p.volumeSize # Undefined /\ p.volumeSize.val # 0
                    THEN p.volumeSize.val ELSE DefaultVolumeSize,
     \* encryptionAtRest: key ? { dataVolumeKmsKeyId: key.keyId } : undefined
     encryptionAtRest |-> p.encryptionKey,
     \* clientBroker: props.encryptionInTransit?.clientBroker ?? TLS
     clientBroker |-> IF p.clientBroker = Undefined THEN TLS
                      ELSE p.clientBroker.val,
     sasl |-> IF p.scram = Scalar(TRUE) THEN Scalar(TRUE) ELSE Undefined,
     tls |-> IF Truthy(p.certificateAuthorityArns)
             THEN p.certificateAuthorityArns ELSE Undefined]

\* The checks in the order the constructor runs them; each addError appends
\* and none returns or throws.
recordedErrors_firstOnly(v, p) ==
    IF subnetErrors(p) # <<>> THEN subnetErrors(p)
    ELSE IF nameErrors(p) # <<>> THEN nameErrors(p)
    ELSE IF exclusiveErrors(v, p) # <<>> THEN exclusiveErrors(v, p)
    ELSE IF encryptionErrors(p) # <<>> THEN encryptionErrors(p)
    ELSE volumeErrors(p)
recordedErrors(v, p) ==
    subnetErrors(p) \o nameErrors(p) \o exclusiveErrors(v, p)
    \o encryptionErrors(p) \o volumeErrors(p)

\* new Cluster(scope, id, props)
Cluster(p) ==
    /\ pc = "new"
    /\ thrown = ""
    /\ variant \in Variants
    /\ pc' = "constructed"
    /\ props' = p
    /\ annotations' = recordedErrors(variant, p)
    /\ cfn' = cfnClusterProps(p)
    /\ cluster' = clusterFields(variant, p)
    /\ children' = constructedChildren(p)
    /\ UNCHANGED <<variant, useVars>>
    /\ UNCHANGED <<stmtVars, docVars, userVars>>

----------------------------------------------------------------------------
(* The class Cluster extends cdk.Resource of lib/cluster.ts: no checks.    *)

LegacyDefaultVolumeSize == 200

MsgTypeError == "TypeError: Cannot read property of undefined"

\* props.brokerNodeProps.storageInfo.ebsStorageInfo.encryptionKmsKey.keyId is
\* read without ?. : it throws when storageInfo, ebsStorageInfo or the key
\* is omitted, which the flattened props give as encryptionKey = undefined.
legacyDereferenceThrows(p) == p.encryptionKey = Undefined

\* const cfnProps: msk.CfnClusterProps = {...}
legacyCfnProps(p) ==
    [clusterName |-> p.clusterName,
     clientSubnets |-> p.subnets,
     securityGroups |-> connectionGroups(p),
     \* volumeSize: storageInfo?.ebsStorageInfo?.volumeSize || 200
     volumeSize |-> IF p.volumeSize # Undefined /\ p.volumeSize.val # 0
                    THEN p.volumeSize.val ELSE LegacyDefaultVolumeSize,
     encryptionAtRest |-> p.encryptionKey,
     clientBroker |-> p.clientBroker,
     sasl |-> Undefined,
     tls |-> p.certificateAuthorityArns]

\* new Cluster(scope, id, props) of the cdk.Resource class: this.connections
\* is set first, then cfnProps is built, then the CfnCluster is created.
LegacyCluster(p) ==
    /\ pc = "new"
    /\ thrown = ""
    /\ variant = ClusterLegacy
    /\ props' = p
    /\ IF legacyDereferenceThrows(p)
       THEN /\ thrown' = MsgTypeError
            /\ children' = (IF p.securityGroups = Undefined
                            THEN {"SecurityGroup"} ELSE {})
            /\ UNCHANGED <<pc, cfn, cluster>>
       ELSE /\ pc' = "constructed"
            /\ cfn' = legacyCfnProps(p)
            /\ cluster' = [connections |-> List(connectionGroups(p)),
                           clusterArn |-> "Resource.ref"]
            /\ children' = (IF p.securityGroups = Undefined
                            THEN {"SecurityGroup"} ELSE {}) \cup {"Resource"}
            /\ UNCHANGED thrown
    /\ UNCHANGED <<variant, annotations>>
    /\ UNCHANGED <<got, reads, resolves, returned, resources>>
    /\ UNCHANGED <<stmtVars, docVars, userVars>>

----------------------------------------------------------------------------
(* Imported clusters and the connections getter.                           *)

MsgImported == "An imported Cluster cannot manage its security groups"

ImportedArns == {"arn:aws:kafka:region:account:cluster/msk1/id1"}

\* Cluster.fromClusterArn(scope, id, clusterArn): class Import extends
\* ClusterBase sets clusterArn and clusterName and leaves _connections unset.
fromClusterArn(clusterArn) ==
    /\ pc = "new"
    /\ thrown = ""
    /\ variant \in Variants
    /\ pc' = "imported"
    /\ cluster' = [_connections |-> Undefined,
                   saslScramAuthenticationKey |-> Undefined,
                   clusterArn |-> clusterArn]
    /\ UNCHANGED <<variant, props, annotations, cfn, children, useVars>>
    /\ UNCHANGED <<stmtVars, docVars, userVars>>

\* Cluster.fromAttributes(scope, id, attrs) of the cdk.Resource class: class
\* Import has connections = new ec2.Connections().
fromAttributes(attrs) ==
    /\ pc = "new"
    /\ thrown = ""
    /\ variant = ClusterLegacy
    /\ pc' = "imported"
    /\ cluster' = [connections |-> List(<<>>), clusterArn |-> attrs.clusterArn]
    /\ UNCHANGED <<variant, props, annotations, cfn, children, useVars>>
    /\ UNCHANGED <<stmtVars, docVars, userVars>>

\* get connections() of ClusterBase: throws when _connections is unset; the
\* cdk.Resource class and its Import have connections as a plain field.
connections ==
    IF variant = ClusterLegacy
    THEN [thrown |-> "", value |-> cluster.connections]
    ELSE IF ~Truthy(cluster._connections)
         THEN [thrown |-> MsgImported, value |-> Undefined]
         ELSE [thrown |-> "", value |-> cluster._connections]

\* A read of cluster.connections.
readConnections ==
    /\ pc \in {"constructed", "imported"}
    /\ thrown = ""
    /\ thrown' = connections.thrown
    /\ got' = (IF connections.thrown = "" THEN connections.value ELSE got)
    /\ UNCHANGED <<variant, pc, props, annotations, cfn, cluster, children>>
    /\ UNCHANGED <<reads, resolves, returned, resources>>
    /\ UNCHANGED <<stmtVars, docVars, userVars>>

----------------------------------------------------------------------------
(* Lookups: the getters backed by an AwsCustomResource.                    *)

\* The getters each class has.
GettersOf(v) ==
    IF v = ClusterLegacy THEN {"zookeeperConnectionString", "bootstrapBrokers"}
    ELSE Getters

ZookeeperGetters ==
    {"zookeeperConnectionString", "zookeeperConnectionStringTls"}

\* The responseField each getter passes on.
responseField(v, g) ==
    CASE g = "zookeeperConnectionString" -> "ZookeeperConnectString"
      [] g = "zookeeperConnectionStringTls" -> "ZookeeperConnectStringTls"
      [] g = "bootstrapBrokers" ->
             (IF v = ClusterLegacy THEN "BootstrapBrokerStringTls"
              ELSE "BootstrapBrokerString")
      [] g = "bootstrapBrokersTls" -> "BootstrapBrokerStringTls"
      [] g = "bootstrapBrokersSaslScram" -> "BootstrapBrokerStringSaslScram"

\* The construct id of the getter's AwsCustomResource: fixed per method,
\* except in the Lazy revision where the response field is appended.
lookupId(v, g) ==
    (IF g \in ZookeeperGetters THEN "ZookeeperConnect" ELSE "BootstrapBrokers")
    \o (IF v = ClusterPart0 THEN responseField(v, g) ELSE "")

\* onUpdate: { service, action, parameters: { ClusterArn: this.clusterArn } }
sdkCall(g) ==
    [service |-> "Kafka",
     action |-> IF g \in ZookeeperGetters THEN "describeCluster"
                ELSE "getBootstrapBrokers",
     ClusterArn |-> cluster.clusterArn]

\* getResponseField(`ClusterInfo.${responseField}`) / (responseField)
responsePath(v, g) ==
    (IF g \in ZookeeperGetters THEN "ClusterInfo." ELSE "")
    \o responseField(v, g)

\* The construct tree (not in lib/cluster.ts) refuses a second child with
\* an id already in use in the scope: the constructor of the child throws.
nameInUse(id) == id \in children
MsgDuplicate(id) == "There is already a Construct with name '" \o id \o "'"

\* new cr.AwsCustomResource(this, id, {...}).getResponseField(path)
AwsCustomResource(g) ==
    LET id == lookupId(variant, g)
    IN IF nameInUse(id)
       THEN /\ thrown' = MsgDuplicate(id)
            /\ UNCHANGED <<children, resources, returned>>
       ELSE /\ children' = children \cup {id}
            /\ resources' = (id :> sdkCall(g)) @@ resources
            /\ returned' = [returned EXCEPT
                   ![g] = [resource |-> id, path |-> responsePath(variant, g)]]
            /\ UNCHANGED thrown

Total(f) ==
    f["zookeeperConnectionString"] + f["zookeeperConnectionStringTls"]
    + f["bootstrapBrokers"] + f["bootstrapBrokersTls"]
    + f["bootstrapBrokersSaslScram"]

\* A read of getter g. The Lazy revision returns core.Lazy.stringValue(...)
\* and creates nothing yet; the others create the custom resource at once.
readLookup(g) ==
    /\ pc = "constructed"
    /\ thrown = ""
    /\ g \in GettersOf(variant)
    /\ Total(reads) < MaxLookups
    /\ reads' = [reads EXCEPT ![g] = @ + 1]
    /\ IF variant = ClusterPart0
       THEN UNCHANGED <<thrown, children, resources, returned>>
       ELSE AwsCustomResource(g)
    /\ UNCHANGED <<variant, pc, props, annotations, cfn, cluster>>
    /\ UNCHANGED <<got, resolves>>
    /\ UNCHANGED <<stmtVars, docVars, userVars>>

zookeeperConnectionString == readLookup("zookeeperConnectionString")
zookeeperConnectionStringTls == readLookup("zookeeperConnectionStringTls")
bootstrapBrokers == readLookup("bootstrapBrokers")
bootstrapBrokersTls == readLookup("bootstrapBrokersTls")
bootstrapBrokersSaslScram == readLookup("bootstrapBrokersSaslScram")

\* Resolution of a value a getter of the Lazy revision returned: every
\* resolution calls produce, which creates the custom resource.
produce(g) ==
    /\ pc = "constructed"
    /\ thrown = ""
    /\ variant = ClusterPart0
    /\ reads[g] > 0
    /\ Total(resolves) < MaxLookups
    /\ resolves' = [resolves EXCEPT ![g] = @ + 1]
    /\ AwsCustomResource(g)
    /\ UNCHANGED <<variant, pc, props, annotations, cfn, cluster>>
    /\ UNCHANGED <<got, reads>>
    /\ UNCHANGED <<stmtVars, docVars, userVars>>

----------------------------------------------------------------------------
(* addUser, of the revision with saslScramAuthenticationKey.               *)

MsgNoKey == "Cannot create users if an authentication KMS key has not been created/provided."

MSK_SECRET_PREFIX == "AmazonMSK_"

Usernames == {"alice", "bob"}

RECURSIVE addressOf(_)
\* addressOf(usernames) of the constructs library: an address that differs
\* for different lists.
addressOf(usernames) ==
    IF usernames = <<>> THEN ""
    ELSE "/" \o Head(usernames) \o addressOf(Tail(usernames))

RECURSIVE createSecrets(_, _)
\* usernames.map(username => new secretsmanager.Secret(this,
\* `KafkaUser${username}`, { secretName: `AmazonMSK_${username}`, ... })):
\* the secrets created on top of acc, up to the first id already in use.
createSecrets(acc, usernames) ==
    IF usernames = <<>> THEN acc
    ELSE LET id == "KafkaUser" \o Head(usernames)
         IN IF id \in acc.children
            THEN [acc EXCEPT !.thrown = MsgDuplicate(id)]
            ELSE createSecrets(
                     [acc EXCEPT
                         !.children = @ \cup {id},
                         !.secrets = (id :> (MSK_SECRET_PREFIX
                                             \o Head(usernames))) @@ @,
                         !.arns = Append(@, id \o ".secretArn")],
                     Tail(usernames))

\* cluster.addUser(...usernames)
addUser(usernames) ==
    /\ pc = "constructed"
    /\ thrown = ""
    /\ variant = ClusterPart0
    /\ Len(userCalls) < MaxAddUsers
    /\ userCalls' = Append(userCalls, usernames)
    /\ IF Truthy(cluster.saslScramAuthenticationKey)
       THEN LET made == createSecrets(
                            [children |-> children, secrets |-> secrets,
                             arns |-> <<>>, thrown |-> ""], usernames)
                id == "BatchAssociateScramSecrets" \o addressOf(usernames)
            IN /\ secrets' = made.secrets
               /\ IF made.thrown # ""
                  THEN /\ thrown' = made.thrown
                       /\ children' = made.children
                       /\ UNCHANGED resources
                  ELSE IF id \in made.children
                  THEN /\ thrown' = MsgDuplicate(id)
                       /\ children' = made.children
                       /\ UNCHANGED resources
                  ELSE /\ children' = made.children \cup {id}
                       /\ resources' =
                              (id :> [service |-> "Kafka",
                                      action |-> "batchAssociateScramSecret",
                                      ClusterArn |-> cluster.clusterArn,
                                      SecretArnList |-> made.arns])
                              @@ resources
                       /\ UNCHANGED thrown
               /\ UNCHANGED annotations
       ELSE /\ annotations' = Append(annotations, MsgNoKey)
            /\ UNCHANGED <<thrown, children, resources, secrets>>
    /\ UNCHANGED <<variant, pc, props, cfn, cluster>>
    /\ UNCHANGED <<got, reads, resolves, returned>>
    /\ UNCHANGED <<stmtVars, docVars>>

----------------------------------------------------------------------------
(* Idle initial values for the parts a specification does not drive.       *)

InitClusterIdle ==
    /\ variant = ClusterTs
    /\ pc = "idle"
    /\ props = Undefined
    /\ annotations = <<>>
    /\ cfn = Undefined
    /\ cluster = Undefined
    /\ children = {}
    /\ InitUse

InitDocumentIdle ==
    /\ baseDocument = Undefined
    /\ base0 = Undefined
    /\ statements = <<>>
    /\ resolved = [called |-> FALSE, value |-> Undefined]
    /\ nResolves = 0

InitStatementIdle ==
    /\ action = <<>>
    /\ principal = EmptyMap
    /\ resource = <<>>
    /\ condition = EmptyMap
    /\ effect = Allow
    /\ sid = Undefined
    /\ trace = <<>>

----------------------------------------------------------------------------
(* Specifications.                                                         *)

Init == InitStatement /\ InitDocumentIdle /\ InitClusterIdle

NextStatement ==
    \/ \E a \in Actions : addAction(a)
    \/ \E as \in ArgLists(Actions) : addActions(as)
    \/ \E f \in CustomPrincipals : addPrincipal(f)
    \/ addAwsPrincipal(PrincipalArn)
    \/ addAwsAccountPrincipal(AccountId)
    \/ addArnPrincipal(PrincipalArn)
    \/ addServicePrincipal(ServiceName)
    \/ \E c \in FederatedConditions : addFederatedPrincipal(FederatedName, c)
    \/ addAccountRootPrincipal
    \/ addCanonicalUserPrincipal(CanonicalUserId)
    \/ addAnyPrincipal
    \/ \E r \in Resources : addResource(r)
    \/ addAllResources
    \/ \E rs \in ArgLists(Resources) : addResources(rs)
    \/ \E s \in Sids : describe(s)
    \/ allow
    \/ deny
    \/ \E kv \in ConditionCalls : addCondition(kv[1], kv[2])
    \/ \E c \in ConditionMaps : addConditions(c)
    \/ \E kv \in ConditionCalls : setCondition(kv[1], kv[2])
    \/ limitToAccount(AccountId)

Next == NextStatement

Spec == Init /\ [][Next]_vars

InitDoc == InitStatementIdle /\ InitDocument /\ InitClusterIdle

NextDocument ==
    \/ \E s \in StatementIds : addStatement(s)
    \/ resolve

SpecDocument == InitDoc /\ [][NextDocument]_vars

InitClusterSpec == InitStatementIdle /\ InitDocumentIdle /\ InitCluster

\* The constructor runs once; its props are only drawn while it can run.
NextCluster ==
    \E p \in (IF pc = "new" THEN ClusterPropsSet ELSE {}) : Cluster(p)

SpecCluster == InitClusterSpec /\ [][NextCluster]_vars

\* Props of a cluster that is then used: the checks are SpecCluster's.
UseProps ==
    {p \in ClusterPropsSet :
        /\ p.subnets = MinSubnets
        /\ p.clusterName = Name(FALSE, <<"m", "s", "k", "1">>)
        /\ p.clientBroker = Undefined
        /\ p.certificateAuthorityArns = Undefined
        /\ p.scram # Scalar(FALSE)
        /\ p.volumeSize = Undefined
        /\ p.securityGroups = Undefined}

InitClusterUse ==
    /\ InitStatementIdle
    /\ InitDocumentIdle
    /\ variant \in Revisions
    /\ pc = "new"
    /\ props = Undefined
    /\ annotations = <<>>
    /\ cfn = Undefined
    /\ cluster = Undefined
    /\ children = {}
    /\ InitUse

NextClusterUse ==
    \/ \E p \in (IF pc = "new" THEN UseProps ELSE {}) : Cluster(p)
    \/ \E p \in (IF pc = "new" THEN UseProps ELSE {}) : LegacyCluster(p)
    \/ \E arn \in ImportedArns : fromClusterArn(arn)
    \/ \E arn \in ImportedArns : fromAttributes([clusterArn |-> arn])
    \/ readConnections
    \/ zookeeperConnectionString
    \/ zookeeperConnectionStringTls
    \/ bootstrapBrokers
    \/ bootstrapBrokersTls
    \/ bootstrapBrokersSaslScram
    \/ \E g \in Getters : produce(g)
    \/ \E us \in ArgLists(Usernames) \cup {<<u>> : u \in Usernames} :
           addUser(us)

SpecClusterUse == InitClusterUse /\ [][NextClusterUse]_vars

----------------------------------------------------------------------------
(* What the calls made so far added, read from the trace alone.            *)

ActionCalls == {"addAction", "addActions"}
ResourceCalls == {"addResource", "addResources"}
PrincipalCalls ==
    {"addPrincipal", "addAwsPrincipal", "addAwsAccountPrincipal",
     "addArnPrincipal", "addServicePrincipal", "addFederatedPrincipal",
     "addAccountRootPrincipal", "addCanonicalUserPrincipal",
     "addAnyPrincipal"}
AllConditionKeys == {"StringEquals", "Bool"}

RECURSIVE ArgsOf(_, _)
\* The arguments of the calls of tr whose name is in ops, in call order.
ArgsOf(tr, ops) ==
    IF tr = <<>> THEN <<>>
    ELSE (IF Head(tr).op \in ops THEN Head(tr).args
          ELSE IF Head(tr).op = "addAllResources" /\ "addResource" \in ops
               THEN <<"*">>
          ELSE <<>>)
         \o ArgsOf(Tail(tr), ops)

RECURSIVE PayloadsOf(_, _)
\* The payloads the calls of tr added under condition key k, in call order.
PayloadsOf(tr, k) ==
    IF tr = <<>> THEN <<>>
    ELSE (IF k \in DOMAIN Head(tr).conditions
          THEN <<Head(tr).conditions[k]>> ELSE <<>>)
         \o PayloadsOf(Tail(tr), k)

Called(ops) == \E i \in 1..Len(trace) : trace[i].op \in ops

\* A field emitted for the entries added: absent for none, the bare entry
\* for one, the list in insertion order for two or more.
EmittedFor(field, added) ==
    /\ Len(added) = 0 => field = Undefined
    /\ Len(added) = 1 => field = Scalar(added[1])
    /\ Len(added) >= 2 => field = List(added)

----------------------------------------------------------------------------
(* Claims.                                                                 *)

\* C1: after any sequence of addAction/addActions (addResource/addResources/
\* addAllResources) calls, toJson emits Action (Resource) absent when no
\* entry was added, as the bare entry when exactly one was added, and as the
\* full list in insertion order when two or more were added.
C1_ArrayFieldEmission ==
    /\ EmittedFor(toJson.Action, ArgsOf(trace, ActionCalls))
    /\ EmittedFor(toJson.Resource, ArgsOf(trace, ResourceCalls))

C1_Witness ==
    /\ Len(ArgsOf(trace, ActionCalls)) = 2
    /\ toJson.Action = List(<<"a1", "a1">>)
    /\ Len(ArgsOf(trace, ResourceCalls)) = 1
    /\ toJson.Resource = Scalar("*")

\* C2: a statement whose principal map holds "*" as the only value of "AWS"
\* and no value under any other tag emits Principal as the scalar "*", not
\* as a one-key object.
C2_AnyoneCollapses ==
    (/\ "AWS" \in DOMAIN principal
     /\ principal["AWS"] = <<"*">>
     /\ \A k \in DOMAIN principal \ {"AWS"} : principal[k] = <<>>)
    => toJson.Principal = Scalar("*")

C2_Witness ==
    /\ Len(trace) = 2
    /\ trace[2].op = "addAnyPrincipal"
    /\ toJson.Principal = Scalar("*")

JsonKinds == {"undefined", "scalar", "list", "object"}

\* C8: for every sequence of mutator calls, none included, toJson returns a
\* structure with an Effect, and a field to which nothing was added (action,
\* resource, principal, condition, sid) is missing from it.
C8_PermissiveAssembly ==
    /\ \A f \in {"Action", "Condition", "Effect", "Principal", "Resource",
                 "Sid"} : toJson[f].kind \in JsonKinds
    /\ toJson.Effect.kind = "scalar"
    /\ ArgsOf(trace, ActionCalls) = <<>> => toJson.Action = Undefined
    /\ ArgsOf(trace, ResourceCalls) = <<>> => toJson.Resource = Undefined
    /\ ~Called(PrincipalCalls) => toJson.Principal = Undefined
    /\ (\A k \in AllConditionKeys : PayloadsOf(trace, k) = <<>>)
           => toJson.Condition = Undefined
    /\ ~Called({"describe"}) => toJson.Sid = Undefined

C8_Witness ==
    /\ Len(trace) = 3
    /\ trace[2].op = "addActions"
    /\ trace[2].args = <<>>
    /\ trace[3].op = "addAnyPrincipal"
    /\ toJson.Action = Undefined
    /\ toJson.Resource = Undefined
    /\ toJson.Principal = Scalar("*")

----------------------------------------------------------------------------
(* Claims about PolicyDocument, under SpecDocument.                        *)

\* The statement list and the version of the constructor's base document.
BaseStatements ==
    IF Truthy(base0) /\ Truthy(base0.val.Statement)
    THEN base0.val.Statement.val ELSE <<>>
BaseHasVersion == Truthy(base0) /\ Truthy(base0.val.Version)

\* A resolve() call is being made.
ResolveStep == nResolves' = nResolves + 1

\* C3: a document constructed with no base document and to which no
\* statement was added resolves to undefined.
C3_EmptyResolvesToNothing ==
    (resolved.called /\ base0 = Undefined /\ Len(statements) = 0)
    => resolved.value = Undefined

C3_Witness ==
    /\ resolved.called
    /\ base0 = Undefined
    /\ Len(statements) = 0
    /\ resolved.value = Undefined

\* C4: a document constructed with a base document holding one statement,
\* and to which no statement was added, resolves to a document whose
\* Statement list is the base document's, with Version defaulted if the
\* base had none.
C4_BaseAloneResolves ==
    (resolved.called /\ Len(BaseStatements) = 1 /\ Len(statements) = 0)
    => /\ resolved.value.kind = "object"
       /\ resolved.value.val.Statement = List(BaseStatements)
       /\ resolved.value.val.Version =
              (IF BaseHasVersion THEN base0.val.Version
               ELSE Scalar(DefaultVersion))

\* C5: with at least one added statement, every resolve() call returns a
\* Statement list equal to the base document's statements followed by every
\* added statement in addStatement order, none dropped, reordered or
\* deduplicated.
C5_BaseThenAdded ==
    [][(ResolveStep /\ Len(statements) >= 1)
       => /\ resolved'.value.kind = "object"
          /\ resolved'.value.val.Statement =
                 List(BaseStatements \o statements)]_vars

\* C6: every resolved document that is not undefined carries a Version: the
\* constant '2012-10-17' when there is no base document or the base has no
\* (non-empty) Version, and the base document's own Version otherwise.
C6_VersionDefaulted ==
    (resolved.called /\ resolved.value # Undefined)
    => /\ resolved.value.kind = "object"
       /\ resolved.value.val.Version =
              (IF BaseHasVersion THEN base0.val.Version
               ELSE Scalar("2012-10-17"))

C6_Witness ==
    /\ nResolves = 2
    /\ base0 # Undefined
    /\ base0.val.Version = Scalar("2008-10-17")
    /\ resolved.value # Undefined
    /\ resolved.value.val.Version = Scalar("2008-10-17")

----------------------------------------------------------------------------
(* Claims about the Cluster constructor, under SpecCluster.                *)

RECURSIVE Count(_, _)
\* How many times message m was recorded in the sequence errs.
Count(errs, m) ==
    IF errs = <<>> THEN 0
    ELSE (IF Head(errs) = m THEN 1 ELSE 0) + Count(Tail(errs), m)

\* C9: constructed with clientBroker = PLAINTEXT and client authentication
\* set (certificate-authority ARNs, SASL/SCRAM, or both), the cluster
\* records the client-authentication message exactly once and never the
\* SASL/SCRAM TLS_PLAINTEXT message.
C9_PlaintextAuthOneDiagnostic ==
    (/\ pc = "constructed"
     /\ props.clientBroker = Scalar("PLAINTEXT")
     /\ \/ props.certificateAuthorityArns # Undefined
        \/ props.scram = Scalar(TRUE))
    => /\ Count(annotations, MsgClientAuth) = 1
       /\ Count(annotations, MsgSaslScram) = 0

C9_Witness ==
    /\ pc = "constructed"
    /\ props.clientBroker = Scalar("PLAINTEXT")
    /\ props.certificateAuthorityArns = List(<<"arn:ca1">>)
    /\ props.scram = Scalar(TRUE)
    /\ Count(annotations, MsgClientAuth) = 1
    /\ Count(annotations, MsgSaslScram) = 0

\* C10: the EBS volume-size message is recorded if and only if a volume
\* size is given and lies outside 1..16384: 0 and 16385 record it, 1 and
\* 16384 do not, and an omitted size does not.
C10_VolumeSizeRange ==
    pc = "constructed" =>
        LET outside == /\ props.volumeSize # Undefined
                       /\ ~(1 <= props.volumeSize.val
                            /\ props.volumeSize.val <= 16384)
        IN Count(annotations, MsgVolume) = (IF outside THEN 1 ELSE 0)

C10_Witness ==
    /\ pc = "constructed"
    /\ props.volumeSize = Scalar(16385)
    /\ Count(annotations, MsgVolume) = 1

\* C11: a resolved cluster name that contains a non-alphanumeric character
\* or is longer than 64 characters records the cluster-name message, either
\* condition alone being enough ("bad name!" records it).
C11_NameCharsetOrLength ==
    (/\ pc = "constructed"
     /\ ~props.clusterName.unresolved
     /\ \/ \E i \in 1..Len(props.clusterName.chars) :
               props.clusterName.chars[i] \notin AlnumChars
        \/ Len(props.clusterName.chars) > 64)
    => Count(annotations, MsgName) >= 1

\* C12: an unresolved cluster name records no cluster-name message, whatever
\* its characters or length.
C12_UnresolvedNameSkipped ==
    (pc = "constructed" /\ props.clusterName.unresolved)
    => Count(annotations, MsgName) = 0

C12_Witness ==
    /\ pc = "constructed"
    /\ props.clusterName.unresolved
    /\ Len(props.clusterName.chars) > 64
    /\ ~IsAlphanumeric(props.clusterName.chars)
    /\ Count(annotations, MsgName) = 0

\* C13: constructed with both certificate-authority ARNs and SASL/SCRAM set,
\* under any client-broker encryption mode, the cluster records the
\* mutual-exclusivity message; with at most one of the two set it does not.
C13_MutuallyExclusive ==
    pc = "constructed" =>
        LET both == /\ props.certificateAuthorityArns # Undefined
                    /\ props.scram = Scalar(TRUE)
        IN Count(annotations, MsgExclusive) = (IF both THEN 1 ELSE 0)

\* C14: under TLS_PLAINTEXT the SASL/SCRAM message is recorded if and only
\* if SASL/SCRAM is enabled, and certificate authentication alone records
\* neither encryption/authentication message; under TLS, given or defaulted,
\* no authentication setting records either message.
C14_TlsPlaintextAndTls ==
    pc = "constructed" =>
        /\ props.clientBroker = Scalar("TLS_PLAINTEXT")
           => /\ Count(annotations, MsgSaslScram) =
                      (IF props.scram = Scalar(TRUE) THEN 1 ELSE 0)
              /\ props.scram # Scalar(TRUE)
                 => Count(annotations, MsgClientAuth) = 0
        /\ props.clientBroker \in {Scalar("TLS"), Undefined}
           => /\ Count(annotations, MsgSaslScram) = 0
              /\ Count(annotations, MsgClientAuth) = 0

C14_Witness ==
    /\ pc = "constructed"
    /\ props.clientBroker = Scalar("TLS_PLAINTEXT")
    /\ props.certificateAuthorityArns = List(<<"arn:ca1">>)
    /\ props.scram # Scalar(TRUE)
    /\ Count(annotations, MsgSaslScram) = 0
    /\ Count(annotations, MsgClientAuth) = 0

\* C15: the subnet message is recorded if and only if fewer than 2 subnets
\* are selected.
C15_SubnetCount ==
    pc = "constructed" =>
        Count(annotations, MsgSubnets) = (IF props.subnets \in {0, 1} THEN 1
                                          ELSE 0)

C15_Witness ==
    /\ pc = "constructed"
    /\ props.subnets = 2
    /\ Count(annotations, MsgSubnets) = 0

\* The messages of a sequence of recorded errors.
Messages(errs) == {errs[i] : i \in 1..Len(errs)}

\* C16: the checks are accumulated and never abort: whatever the props, the
\* constructor completes, the CfnCluster is created, and the messages
\* recorded are exactly those of every check taken on its own, once each.
C16_ChecksAccumulate ==
    pc # "new" =>
        /\ pc = "constructed"
        /\ cfn # Undefined
        /\ "Resource" \in children
        /\ Messages(annotations) =
               Messages(subnetErrors(props)) \cup Messages(nameErrors(props))
               \cup Messages(exclusiveErrors(variant, props))
               \cup Messages(encryptionErrors(props))
               \cup Messages(volumeErrors(props))
        /\ \A msg \in Messages(annotations) : Count(annotations, msg) = 1

C16_Witness ==
    /\ pc = "constructed"
    /\ cfn # Undefined
    /\ Messages(annotations) =
           {MsgSubnets, MsgName, MsgExclusive, MsgClientAuth, MsgVolume}

----------------------------------------------------------------------------
(* Claims about a cluster in use, under SpecClusterUse.                    *)

\* A step that is a read of connections: the only action that keeps pc and
\* the lookup counters and changes what was returned or thrown.
ReadConnectionsStep ==
    /\ pc \in {"constructed", "imported"}
    /\ pc' = pc
    /\ reads' = reads
    /\ resolves' = resolves
    /\ (got' # got \/ thrown' # thrown)

\* C17: a read of connections on an imported cluster throws 'An imported
\* Cluster cannot manage its security groups' and returns nothing; on a
\* cluster made by the constructor it returns the connections object and
\* throws nothing.
C17_ConnectionsOfImported ==
    [][ReadConnectionsStep =>
           /\ pc = "imported" => (thrown' = MsgImported /\ got' = got)
           /\ pc = "constructed" => (thrown' = "" /\ got' # Undefined)]_vars

\* The lookup resources created so far.
LookupResources == DOMAIN resources

\* C18: when one lookup getter alone is read, any number of times, and the
\* values it gave are resolved, no duplicate-id error is thrown and at most
\* one lookup resource exists.
C18_LookupMemoized ==
    \A g \in Getters :
        (reads[g] > 0 /\ Total(reads) = reads[g])
        => /\ thrown = ""
           /\ Cardinality(LookupResources) <= 1

\* The response path the claim gives each getter: its own field.
OwnPath ==
    [g \in Getters |->
        CASE g = "zookeeperConnectionString" ->
                 "ClusterInfo.ZookeeperConnectString"
          [] g = "zookeeperConnectionStringTls" ->
                 "ClusterInfo.ZookeeperConnectStringTls"
          [] g = "bootstrapBrokers" -> "BootstrapBrokerString"
          [] g = "bootstrapBrokersTls" -> "BootstrapBrokerStringTls"
          [] g = "bootstrapBrokersSaslScram" ->
                 "BootstrapBrokerStringSaslScram"]

\* C19: on a cluster with the five getters, when each getter is read at
\* most once and each value resolved at most once, in any order, nothing is
\* thrown, and each value obtained is the getter's own response field of a
\* call whose ClusterArn is the cluster's ARN.
C19_LookupsIndependent ==
    (/\ variant \in Variants
     /\ pc = "constructed"
     /\ \A g \in Getters : reads[g] <= 1 /\ resolves[g] <= 1)
    => /\ thrown = ""
       /\ \A g \in Getters :
              returned[g] # Undefined
              => /\ returned[g].path = OwnPath[g]
                 /\ resources[returned[g].resource].ClusterArn =
                        cluster.clusterArn

----------------------------------------------------------------------------
(* Claims about repeated entries of a PolicyStatement, under Spec.         *)

RECURSIVE FirstInsertions(_)
\* The entries of a sequence, each kept at its first position only.
FirstInsertions(added) ==
    IF added = <<>> THEN <<>>
    ELSE LET front == FirstInsertions(SubSeq(added, 1, Len(added) - 1))
             last == added[Len(added)]
         IN IF Count(front, last) > 0 THEN front ELSE Append(front, last)

\* The entries an emitted field holds.
Entries(field) ==
    IF field = Undefined THEN <<>>
    ELSE IF field.kind = "scalar" THEN <<field.val>>
    ELSE field.val

\* C20 as stated: an action (resource) added more than once is emitted once,
\* at the position of its first insertion.
C20_DedupOnEmit ==
    /\ EmittedFor(toJson.Action,
                  FirstInsertions(ArgsOf(trace, ActionCalls)))
    /\ EmittedFor(toJson.Resource,
                  FirstInsertions(ArgsOf(trace, ResourceCalls)))

\* C20: toJson emits every action (resource) as many times as it was added:
\* nothing is deduplicated.
C20_DuplicatesKept ==
    /\ \A a \in Actions :
           Count(Entries(toJson.Action), a) =
               Count(ArgsOf(trace, ActionCalls), a)
    /\ \A r \in Resources \cup {"*"} :
           Count(Entries(toJson.Resource), r) =
               Count(ArgsOf(trace, ResourceCalls), r)

C20_Witness ==
    /\ ArgsOf(trace, ActionCalls) = <<"a2", "a2">>
    /\ toJson.Action = List(<<"a2", "a2">>)

----------------------------------------------------------------------------
(* Claims about the emitted Principal and Effect, under Spec.              *)

\* The principal tags that hold at least one value.
TagsWithValues == {k \in DOMAIN principal : principal[k] # <<>>}

\* The values of a tag as a field emits them: bare for one, a list for more.
EmittedValues(vals) ==
    IF Len(vals) = 1 THEN Scalar(vals[1]) ELSE List(vals)

\* C21: when a tag other than "AWS" holds values, or "AWS" holds values
\* other than the single "*", Principal is emitted as the map from each tag
\* with values to its values, and is not the scalar "*".
C21_CollapseIsNarrow ==
    (\/ \E k \in TagsWithValues : k # "AWS"
     \/ "AWS" \in TagsWithValues /\ principal["AWS"] # <<"*">>)
    => /\ toJson.Principal # Scalar("*")
       /\ toJson.Principal.kind = "object"
       /\ DOMAIN toJson.Principal.val = TagsWithValues
       /\ \A k \in TagsWithValues :
              toJson.Principal.val[k] = EmittedValues(principal[k])

C21_Witness ==
    /\ principal = ("AWS" :> <<"*">> @@ "Service" :> <<ServiceName>>)
    /\ toJson.Principal =
           Object("AWS" :> Scalar("*") @@ "Service" :> Scalar(ServiceName))

----------------------------------------------------------------------------
(* Claims about addUser and the optional storage props.                    *)

\* The construct ids of the secret-association custom resources.
Associations ==
    {id \in DOMAIN resources :
        resources[id].action = "batchAssociateScramSecret"}

\* C22: after one addUser call that did not throw, a cluster with SASL/SCRAM
\* enabled, its key created or provided, holds one secret named
\* AmazonMSK_<username> per username given and one association call, and no
\* 'Cannot create users' message; a cluster without SASL/SCRAM holds no
\* secret and no association, and that message once.
C22_AddUserNeedsScram ==
    (/\ variant = ClusterPart0
     /\ pc = "constructed"
     /\ thrown = ""
     /\ Len(userCalls) = 1)
    => LET given == {userCalls[1][i] : i \in 1..Len(userCalls[1])}
       IN IF props.scram = Scalar(TRUE)
          THEN /\ {secrets[id] : id \in DOMAIN secrets} =
                      {"AmazonMSK_" \o u : u \in given}
               /\ Cardinality(DOMAIN secrets) = Cardinality(given)
               /\ Cardinality(Associations) = 1
               /\ Count(annotations, MsgNoKey) = 0
          ELSE /\ secrets = EmptyMap
               /\ Associations = {}
               /\ Count(annotations, MsgNoKey) = 1

\* C23: in every revision, a Cluster constructed without storageInfo (no
\* volume size, no at-rest key) is constructed without a runtime error, and
\* its CfnCluster has no at-rest key id and the default volume size.
C23_StorageOptional ==
    (/\ props # Undefined
     /\ props.encryptionKey = Undefined
     /\ props.volumeSize = Undefined)
    => /\ thrown # MsgTypeError
       /\ pc = "constructed"
       /\ cfn.encryptionAtRest = Undefined
       /\ cfn.volumeSize = (IF variant = ClusterLegacy THEN 200 ELSE 1000)

----------------------------------------------------------------------------
(* Claims about PolicyDocument.resolve, under SpecDocument.                *)

\* C24: a resolve() call leaves the base document passed to the constructor
\* as it was, and a second resolve() right after it would return the same
\* Statement list and Version.
C24_ResolveIdempotent ==
    [][ResolveStep =>
           /\ baseDocument' = baseDocument
           /\ ~isEmpty =>
                  resolvedDocument(baseDocument', statements') =
                      resolved'.value]_vars

----------------------------------------------------------------------------
(* Claims about the Effect and the Principal of a statement, under Spec.   *)

RECURSIVE EffectAfter(_)
\* The effect the calls of tr ask for: that of the last allow() or deny(),
\* or the constructor's argument, Allow when it was given none.
EffectAfter(tr) ==
    LET last == tr[Len(tr)]
    IN IF last.op = "allow" THEN "Allow"
       ELSE IF last.op = "deny" THEN "Deny"
       ELSE IF last.op = "new"
            THEN (IF last.args = <<>> THEN "Allow" ELSE last.args[1])
       ELSE EffectAfter(SubSeq(tr, 1, Len(tr) - 1))

\* C25: toJson carries an Effect that is Allow or Deny: the effect of the
\* most recent allow() or deny() call, or the constructor's (Allow by
\* default) when neither was called; no other mutator changes it.
C25_EffectFollowsLastCall ==
    /\ toJson.Effect \in {Scalar("Allow"), Scalar("Deny")}
    /\ toJson.Effect = Scalar(EffectAfter(trace))

C25_Witness ==
    /\ Len(trace) = 3
    /\ trace[1].args = <<>>
    /\ trace[2].op = "deny"
    /\ trace[3].op = "describe"
    /\ toJson.Effect = Scalar("Deny")

\* C26: an emitted Principal is the scalar "*" or a map with at least one
\* tag, every tag with a value; a principal map whose tags all hold no value
\* emits no Principal; and hasPrincipal is true exactly when a Principal is
\* emitted.
C26_NoEmptyPrincipal ==
    /\ toJson.Principal # Undefined
       => \/ toJson.Principal = Scalar("*")
          \/ /\ toJson.Principal.kind = "object"
             /\ DOMAIN toJson.Principal.val # {}
             /\ \A k \in DOMAIN toJson.Principal.val :
                    toJson.Principal.val[k] \notin {Undefined, List(<<>>)}
    /\ (\A k \in DOMAIN principal : principal[k] = <<>>)
       => toJson.Principal = Undefined
    /\ hasPrincipal <=> toJson.Principal # Undefined

=============================================================================
